---------------------------- MODULE Spec2Model ----------------------------
(***************************************************************************)
(* State-machine model of BlimpMainAlgo (src/src/obsw_algo.rs): the        *)
(* controller state, handle_event, step, perform_action and                *)
(* set_action_callback, together with the postcard wire format of          *)
(* MessageG2B / MessageB2G that the handlers encode and decode.            *)
(*                                                                         *)
(* Number representation.  i32 values are integers in I32Min..I32Max and   *)
(* i32 arithmetic is modelled with its width (overflow detected, then      *)
(* either a panic or a two's-complement wrap, depending on the build).     *)
(* f64 values are records: a finite value is held in thousandths           *)
(* ([cls |-> "finite", milli |-> m]); NaN and the infinities are separate  *)
(* classes.  The natural logarithm and the little-endian IEEE-754 image of *)
(* an f64 are tabulated for the sample values the model feeds in.          *)
(* The wire format is postcard 1.x: varint(LEB128) integers, zigzag for    *)
(* signed ones, u8 as one raw byte, f64 as 8 little-endian bytes, enums as *)
(* a varint variant index, Vec<u8> as a varint length and the bytes.       *)
(* u32 message ids are taken below 2^31 (the checker's integer range); the *)
(* zigzag codec covers the whole i32 range.                                *)
(***************************************************************************)
EXTENDS Integers, Sequences, FiniteSets, TLC

\* ------------------------------------------------------------------ bounds

\* Number of distinct egress sinks the environment may register.
NumSinks == 2

\* ------------------------------------------------------------- i32 numerics

I32Max == 2147483647

I32Min == (-I32Max) - 1

I16Max == 32767

\* a + b does not fit an i32.
AddOverflows(a, b) ==
    IF b >= 0 THEN a > I32Max - b ELSE a < I32Min - b

\* Two's-complement a + b (i32::wrapping_add), computed without leaving the
\* 32-bit range.
WrappingAdd(a, b) ==
    IF ~AddOverflows(a, b) THEN a + b
    ELSE IF b >= 0 THEN ((a - I32Max) - 1) + ((b - I32Max) - 1)
    ELSE ((a + I32Max) + 1) + ((b + I32Max) + 1)

\* sign * y for sign in {1, -1}: only (-1) * i32::MIN overflows.
MulOverflows(sign, y) == sign = -1 /\ y = I32Min

WrappingMul(sign, y) ==
    IF MulOverflows(sign, y) THEN I32Min
    ELSE IF sign = 1 THEN y ELSE -y

\* `x as i16`: keep the low 16 bits, reinterpret as signed.
AsI16(x) ==
    LET r == x % 65536
    IN  IF r > I16Max THEN r - 65536 ELSE r

\* ------------------------------------------------------------- f64 values

Finite(m) == [cls |-> "finite", milli |-> m]

NaN == [cls |-> "nan", milli |-> 0]

PosInf == [cls |-> "inf", milli |-> 1]

NegInf == [cls |-> "inf", milli |-> -1]

\* The f64 values the environment delivers in sensor events, in thousandths:
\* 0.0, 10.0, 20.0, -1.0, 90000.0, 101325.0, 110000.0.
F64Samples ==
    { Finite(0), Finite(10000), Finite(20000), Finite(-1000),
      Finite(90000000), Finite(101325000), Finite(110000000) }

\* f64::to_le_bytes of the sample values.
F64ToLeBytes(v) ==
    CASE v = Finite(0)         -> <<0, 0, 0, 0, 0, 0, 0, 0>>
      [] v = Finite(10000)     -> <<0, 0, 0, 0, 0, 0, 36, 64>>
      [] v = Finite(20000)     -> <<0, 0, 0, 0, 0, 0, 52, 64>>
      [] v = Finite(-1000)     -> <<0, 0, 0, 0, 0, 0, 240, 191>>
      [] v = Finite(90000000)  -> <<0, 0, 0, 0, 0, 249, 245, 64>>
      [] v = Finite(101325000) -> <<0, 0, 0, 0, 208, 188, 248, 64>>
      [] v = Finite(110000000) -> <<0, 0, 0, 0, 0, 219, 250, 64>>

\* f64::ln of a positive sample value, in units of 1e-4.
LnE4(v) ==
    CASE v = Finite(10000)     -> 23026
      [] v = Finite(20000)     -> 29957
      [] v = Finite(90000000)  -> 114076
      [] v = Finite(101325000) -> 115261
      [] v = Finite(110000000) -> 116082

\* Faulty variant of BaroAltitude: the two logarithms are subtracted the
\* other way round.
BaroAltitudeSignFlipped(press) ==
    IF press.cls = "nan" THEN NaN
    ELSE IF press.cls = "inf" THEN (IF press.milli > 0 THEN PosInf ELSE NaN)
    ELSE IF press.milli < 0 THEN NaN
    ELSE IF press.milli = 0 THEN NegInf
    ELSE LET diff == LnE4(press) - LnE4(Finite(101325000))
             coef == (diff * 292718) \div 100000
             alt  == (coef * 28815) \div 100000
         IN  Finite(alt)

\* (base_pressure.ln() - press.ln()) * const_coef * temperature, with
\* base_pressure = 101325.0, const_coef = 0.0292718, temperature = 288.15.
\* ln of zero is -inf and ln of a negative number is NaN; both propagate
\* through the subtraction and the two multiplications by positive constants.
BaroAltitude(press) ==
    IF press.cls = "nan" THEN NaN
    ELSE IF press.cls = "inf" THEN (IF press.milli > 0 THEN NegInf ELSE NaN)
    ELSE IF press.milli < 0 THEN NaN
    ELSE IF press.milli = 0 THEN PosInf
    ELSE LET diff == LnE4(Finite(101325000)) - LnE4(press)  \* 1e-4
             coef == (diff * 292718) \div 100000            \* 1e-6
             alt  == (coef * 28815) \div 100000             \* 1e-3
         IN  Finite(alt)

\* ------------------------------------------------------------ Option<T>

None == [some |-> FALSE]

Some(v) == [some |-> TRUE, val |-> v]

\* Option::unwrap_or
UnwrapOr(opt, default) == IF opt.some THEN opt.val ELSE default

\* --------------------------------------------------------------- data types

\* struct Controls
Controls(t, e, y) == [throttle |-> t, elevation |-> e, yaw |-> y]

\* enum BlimpAction
SetServo(servo, location) ==
    [type |-> "SetServo", servo |-> servo, location |-> location]

SetMotor(motor, speed) == [type |-> "SetMotor", motor |-> motor, speed |-> speed]

SendMsg(bytes) == [type |-> "SendMsg", msg |-> bytes]

\* enum SensorType, in declaration order (variant index = position - 1)
SensorType == <<"Barometer", "GPSLatitude", "GPSLongitude", "GPSAltitude">>

\* enum BlimpEvent
EvControl(c) == [type |-> "Control", ctrl |-> c]

EvGetMsg(bytes) == [type |-> "GetMsg", msg |-> bytes]

EvSensorDataF64(sensor, value) ==
    [type |-> "SensorDataF64", sensor |-> sensor, value |-> value]

\* enum MessageG2B / MessageB2G
MsgPing(id) == [type |-> "Ping", id |-> id]

MsgPong(id) == [type |-> "Pong", id |-> id]

MsgControl(c) == [type |-> "Control", ctrl |-> c]

MsgForwardAction(a) == [type |-> "ForwardAction", action |-> a]

MsgForwardEvent(e) == [type |-> "ForwardEvent", event |-> e]

\* ------------------------------------------------------ postcard: encoding

\* LEB128 varint of a natural number.
RECURSIVE Varint(_)
Varint(n) ==
    IF n < 128 THEN <<n>>
    ELSE <<(n % 128) + 128>> \o Varint(n \div 128)

\* Varint of the zigzag image of a signed integer.  The zigzag image of n is
\* 2*m + b with (m, b) = (n, 0) for n >= 0 and (-(n+1), 1) for n < 0; it can
\* reach 2^32 - 1, so the first 7-bit group is split off before forming it.
VarintZigZag(n) ==
    LET m == IF n >= 0 THEN n ELSE -(n + 1)
        b == IF n >= 0 THEN 0 ELSE 1
    IN  IF m < 64 THEN <<2 * m + b>>
        ELSE <<(2 * (m % 64) + b) + 128>> \o Varint(m \div 64)

\* Vec<u8>: length, then the bytes.
EncodeBytes(bytes) == Varint(Len(bytes)) \o bytes

\* Position of a variant in its enum (0-based variant index).
SensorIndex(sensor) == (CHOOSE i \in 1..Len(SensorType) : SensorType[i] = sensor) - 1

EncodeControls(c) ==
    VarintZigZag(c.throttle) \o VarintZigZag(c.elevation) \o VarintZigZag(c.yaw)

EncodeAction(a) ==
    CASE a.type = "SetServo" -> Varint(0) \o <<a.servo>> \o VarintZigZag(a.location)
      [] a.type = "SetMotor" -> Varint(1) \o <<a.motor>> \o VarintZigZag(a.speed)
      [] a.type = "SendMsg"  -> Varint(2) \o EncodeBytes(a.msg)

EncodeEvent(e) ==
    CASE e.type = "Control" -> Varint(0) \o EncodeControls(e.ctrl)
      [] e.type = "GetMsg"  -> Varint(1) \o EncodeBytes(e.msg)
      [] e.type = "SensorDataF64" ->
            Varint(2) \o Varint(SensorIndex(e.sensor)) \o F64ToLeBytes(e.value)

\* postcard::to_stdvec::<MessageG2B>
EncodeG2B(m) ==
    CASE m.type = "Ping"    -> Varint(0) \o Varint(m.id)
      [] m.type = "Pong"    -> Varint(1) \o Varint(m.id)
      [] m.type = "Control" -> Varint(2) \o EncodeControls(m.ctrl)

\* postcard::to_stdvec::<MessageB2G>
EncodeB2G(m) ==
    CASE m.type = "Ping"          -> Varint(0) \o Varint(m.id)
      [] m.type = "Pong"          -> Varint(1) \o Varint(m.id)
      [] m.type = "ForwardAction" -> Varint(2) \o EncodeAction(m.action)
      [] m.type = "ForwardEvent"  -> Varint(3) \o EncodeEvent(m.event)

\* ------------------------------------------------------ postcard: decoding
\* Every Take* reads one value from the front of `bytes` and yields
\* [ok, val, rest]; ok = FALSE is a deserialization error.

Fail == [ok |-> FALSE, val |-> 0, rest |-> <<>>]

Ok(v, rest) == [ok |-> TRUE, val |-> v, rest |-> rest]

Drop(bytes, n) == SubSeq(bytes, n + 1, Len(bytes))

MinOf(S) == CHOOSE x \in S : \A y \in S : x <= y

\* Sum of the 7-bit groups j..k of a varint, each weighted 2^(7(j-1)-1):
\* the value of the varint, halved, without its first group.
RECURSIVE HighGroups(_, _, _)
HighGroups(bytes, j, k) ==
    IF j > k THEN 0
    ELSE (bytes[j] % 128) * 2^(7 * (j - 1) - 1) + HighGroups(bytes, j + 1, k)

\* A varint of at most maxLen bytes whose last allowed byte is at most
\* lastMax (5 and 15 for u32, 3 and 3 for u16, 10 and 1 for u64).  The value
\* is returned as [half, bit], value = 2*half + bit.
TakeVarintParts(bytes, maxLen, lastMax) ==
    LET n    == IF Len(bytes) < maxLen THEN Len(bytes) ELSE maxLen
        ends == {k \in 1..n : bytes[k] < 128}
    IN  IF ends = {} THEN Fail
        ELSE LET k == MinOf(ends)
             IN  IF k = maxLen /\ bytes[k] > lastMax THEN Fail
                 ELSE Ok([half |-> (bytes[1] % 128) \div 2 + HighGroups(bytes, 2, k),
                          bit  |-> bytes[1] % 2],
                         Drop(bytes, k))

\* Continue with F(value, rest) after a successful read, else fail (`?`).
AndThen(r, F(_, _)) == IF r.ok THEN F(r.val, r.rest) ELSE Fail

\* An unsigned varint.
TakeVarint(bytes, maxLen, lastMax) ==
    AndThen(TakeVarintParts(bytes, maxLen, lastMax),
            LAMBDA p, rest : Ok(2 * p.half + p.bit, rest))

\* A zigzag varint.
TakeZigZag(bytes, maxLen, lastMax) ==
    AndThen(TakeVarintParts(bytes, maxLen, lastMax),
            LAMBDA p, rest : Ok(IF p.bit = 0 THEN p.half ELSE -(p.half) - 1, rest))

TakeU32(bytes) == TakeVarint(bytes, 5, 15)

TakeI32(bytes) == TakeZigZag(bytes, 5, 15)

TakeI16(bytes) == TakeZigZag(bytes, 3, 3)

TakeU8(bytes) == IF Len(bytes) < 1 THEN Fail ELSE Ok(bytes[1], Drop(bytes, 1))

TakeBytes(bytes) ==
    AndThen(TakeVarint(bytes, 10, 1),
            LAMBDA n, rest : IF Len(rest) < n THEN Fail
                             ELSE Ok(SubSeq(rest, 1, n), Drop(rest, n)))

\* The sample value with the given 8-byte image.
F64FromLeBytes(img, rest) ==
    IF \E v \in F64Samples : F64ToLeBytes(v) = img
    THEN Ok(CHOOSE v \in F64Samples : F64ToLeBytes(v) = img, rest)
    ELSE Fail

TakeF64(bytes) ==
    IF Len(bytes) < 8 THEN Fail
    ELSE F64FromLeBytes(SubSeq(bytes, 1, 8), Drop(bytes, 8))

\* Faulty variant of TakeControls: reads the fields as throttle, yaw, elevation.
TakeControlsYawFirst(bytes) ==
    AndThen(TakeI32(bytes), LAMBDA t, r1 :
    AndThen(TakeI32(r1),    LAMBDA y, r2 :
    AndThen(TakeI32(r2),    LAMBDA e, r3 : Ok(Controls(t, e, y), r3))))

\* struct Controls, fields in declaration order.
TakeControls(bytes) ==
    AndThen(TakeI32(bytes), LAMBDA t, r1 :
    AndThen(TakeI32(r1),    LAMBDA e, r2 :
    AndThen(TakeI32(r2),    LAMBDA y, r3 : Ok(Controls(t, e, y), r3))))

TakeSensorType(bytes) ==
    AndThen(TakeU32(bytes),
            LAMBDA d, rest : IF d < Len(SensorType) THEN Ok(SensorType[d + 1], rest)
                             ELSE Fail)

TakeAction(bytes) ==
    AndThen(TakeU32(bytes), LAMBDA d, rest :
        CASE d = 0 -> AndThen(TakeU8(rest),  LAMBDA s, r1 :
                      AndThen(TakeI16(r1),   LAMBDA l, r2 : Ok(SetServo(s, l), r2)))
          [] d = 1 -> AndThen(TakeU8(rest),  LAMBDA m, r1 :
                      AndThen(TakeI32(r1),   LAMBDA s, r2 : Ok(SetMotor(m, s), r2)))
          [] d = 2 -> AndThen(TakeBytes(rest), LAMBDA b, r1 : Ok(SendMsg(b), r1))
          [] OTHER -> Fail)

TakeEvent(bytes) ==
    AndThen(TakeU32(bytes), LAMBDA d, rest :
        CASE d = 0 -> AndThen(TakeControls(rest), LAMBDA c, r1 : Ok(EvControl(c), r1))
          [] d = 1 -> AndThen(TakeBytes(rest),    LAMBDA b, r1 : Ok(EvGetMsg(b), r1))
          [] d = 2 -> AndThen(TakeSensorType(rest), LAMBDA s, r1 :
                      AndThen(TakeF64(r1),          LAMBDA v, r2 :
                              Ok(EvSensorDataF64(s, v), r2)))
          [] OTHER -> Fail)

\* postcard::from_bytes::<MessageG2B>: the value read from the front of the
\* buffer; bytes left over after it are not an error.
DecodeG2B(bytes) ==
    AndThen(TakeU32(bytes), LAMBDA d, rest :
        CASE d = 0 -> AndThen(TakeU32(rest),      LAMBDA i, r1 : Ok(MsgPing(i), r1))
          [] d = 1 -> AndThen(TakeU32(rest),      LAMBDA i, r1 : Ok(MsgPong(i), r1))
          [] d = 2 -> AndThen(TakeControls(rest), LAMBDA c, r1 : Ok(MsgControl(c), r1))
          [] OTHER -> Fail)

\* postcard::from_bytes::<MessageB2G>, as the ground station reads a SendMsg.
DecodeB2G(bytes) ==
    AndThen(TakeU32(bytes), LAMBDA d, rest :
        CASE d = 0 -> AndThen(TakeU32(rest),    LAMBDA i, r1 : Ok(MsgPing(i), r1))
          [] d = 1 -> AndThen(TakeU32(rest),    LAMBDA i, r1 : Ok(MsgPong(i), r1))
          [] d = 2 -> AndThen(TakeAction(rest), LAMBDA a, r1 : Ok(MsgForwardAction(a), r1))
          [] d = 3 -> AndThen(TakeEvent(rest),  LAMBDA e, r1 : Ok(MsgForwardEvent(e), r1))
          [] OTHER -> Fail)

\* ------------------------------------------------------------- environment

\* Controls the pilot or the ground station sends.
ControlSamples ==
    { Controls(50, 10, 5),
      Controls(0, 40000, -40000),
      Controls(I32Max, -1, 1),
      Controls(I32Max, 0, I32Min) }

\* Values delivered with each sensor tag.
SensorSamples(sensor) ==
    CASE sensor = "Barometer" ->
            {Finite(101325000), Finite(90000000), Finite(110000000),
             Finite(0), Finite(-1000)}
      [] sensor = "GPSLatitude"  -> {Finite(10000), Finite(20000)}
      [] sensor = "GPSLongitude" -> {Finite(20000), Finite(0)}
      [] sensor = "GPSAltitude"  -> {Finite(10000), Finite(110000000)}

\* Messages the ground station sends.
G2BSamples ==
    {MsgPing(7), MsgPing(300), MsgPing(I32Max), MsgPong(7)}
      \cup {MsgControl(c) : c \in ControlSamples}

\* Datagrams that decode: each encoded message, and two of them followed by
\* bytes that are not part of the message.
ValidDatagrams ==
    {EncodeG2B(m) : m \in G2BSamples}
      \cup {EncodeG2B(MsgPing(7)) \o <<255>>,
            EncodeG2B(MsgControl(Controls(50, 10, 5))) \o <<1, 2>>}

\* Datagrams that do not decode: empty, unknown variant, missing payload,
\* unterminated varint, truncated Controls, varint out of u32 range,
\* over-long variant index.
MalformedDatagrams ==
    { <<>>, <<3>>, <<0>>, <<0, 128>>, <<2, 100>>,
      <<0, 255, 255, 255, 255, 16>>, <<128, 128, 128, 128, 128, 0>> }

Datagrams == ValidDatagrams \cup MalformedDatagrams

\* postcard::from_bytes::<MessageG2B>(msg) for every datagram the environment
\* delivers (DecodeG2B, evaluated once per datagram).
from_bytes_G2B == [b \in Datagrams |-> DecodeG2B(b)]

Events ==
    {EvControl(c) : c \in ControlSamples}
      \cup {EvGetMsg(b) : b \in Datagrams}
      \cup UNION {{EvSensorDataF64(SensorType[k], v) : v \in SensorSamples(SensorType[k])}
                    : k \in 1..Len(SensorType)}

Sinks == 1..NumSinks

Call(op, ev, sink, diag) == [op |-> op, ev |-> ev, sink |-> sink, diag |-> diag]

NoEvent == [type |-> "none"]

IsPrefix(p, q) == Len(p) <= Len(q) /\ SubSeq(q, 1, Len(p)) = p

\* ev is a GetMsg whose buffer starts with the encoding of message m (the
\* encoding is prefix-free, so m is the message the buffer decodes to).
Carries(ev, m) == ev.type = "GetMsg" /\ IsPrefix(EncodeG2B(m), ev.msg)

\* The Controls a datagram carries: Some(c) when it starts with the encoding
\* of MessageG2B::Control(c), None otherwise.
CarriedControls ==
    [b \in Datagrams |->
        IF \E c \in ControlSamples : IsPrefix(EncodeG2B(MsgControl(c)), b)
        THEN Some(CHOOSE c \in ControlSamples : IsPrefix(EncodeG2B(MsgControl(c)), b))
        ELSE None]

\* History of the inputs delivered to handle_event: the pressure of the
\* latest Barometer event and the Controls of the latest Control carrier (a
\* Control event, or a GetMsg whose datagram carries a Control message).
NothingYet == [pressure |-> None, control |-> None]

Latest(h, ev) ==
    IF ev.type = "SensorDataF64" /\ ev.sensor = "Barometer"
    THEN [h EXCEPT !.pressure = Some(ev.value)]
    ELSE IF ev.type = "Control" THEN [h EXCEPT !.control = Some(ev.ctrl)]
    ELSE IF ev.type = "GetMsg" /\ CarriedControls[ev.msg].some
    THEN [h EXCEPT !.control = CarriedControls[ev.msg]]
    ELSE h

\* The record of a set_action_callback call: the sink registered and the
\* callback it replaced.
Registration(sink, previous) ==
    [op |-> "set_action_callback", ev |-> NoEvent, sink |-> sink,
     diag |-> FALSE, replaced |-> previous]

\* History of the sensor events delivered to handle_event: the value of the
\* latest GPSLatitude and GPSLongitude event, and whether a Barometer event
\* was delivered.
NothingSeen == [latitude |-> None, longitude |-> None, barometer |-> FALSE]

Seen(h, ev) ==
    IF ev.type # "SensorDataF64" THEN h
    ELSE IF ev.sensor = "GPSLatitude" THEN [h EXCEPT !.latitude = Some(ev.value)]
    ELSE IF ev.sensor = "GPSLongitude" THEN [h EXCEPT !.longitude = Some(ev.value)]
    ELSE IF ev.sensor = "Barometer" THEN [h EXCEPT !.barometer = TRUE]
    ELSE h

\* -------------------------------------------------------------- the state

VARIABLES
    action_callback,   \* Option<sink>: the registered egress callback
    curr_flight_mode,  \* "Manual" or "StabilizeAttiAlti"
    controls,          \* Controls
    altitude,          \* Option<f64>
    gps_location,      \* Option<(f64, f64)>
    overflow_checks,   \* build setting: TRUE = arithmetic overflow panics
    panicked,          \* a call unwound with a panic
    last_call,         \* the most recent call on the instance (history)
    emitted,           \* what that call passed to the callback, in order
    seen,              \* the sensor events handled so far (history)
    latest,            \* latest pressure and Controls delivered (history)
    nesting            \* handle_event calls nested in the last call (history)

vars == <<action_callback, curr_flight_mode, controls, altitude, gps_location,
          overflow_checks, panicked, last_call, emitted, seen, latest, nesting>>

\* The fields of struct BlimpMainAlgo as one value.
Self ==
    [action_callback  |-> action_callback,
     curr_flight_mode |-> curr_flight_mode,
     controls         |-> controls,
     altitude         |-> altitude,
     gps_location     |-> gps_location]

\* Faulty variant of New: the altitude starts at 0.0 instead of absent.
NewAltitudeZero ==
    [action_callback  |-> None,
     curr_flight_mode |-> "Manual",
     controls         |-> Controls(0, 0, 0),
     altitude         |-> Some(Finite(0)),
     gps_location     |-> None]

\* Faulty variant of New: the controller starts in the stabilizing mode.
NewStabilizing ==
    [action_callback  |-> None,
     curr_flight_mode |-> "StabilizeAttiAlti",
     controls         |-> Controls(0, 0, 0),
     altitude         |-> None,
     gps_location     |-> None]

\* BlimpMainAlgo::new()
New ==
    [action_callback  |-> None,
     curr_flight_mode |-> "Manual",
     controls         |-> Controls(0, 0, 0),
     altitude         |-> None,
     gps_location     |-> None]

\* self.action_callback.as_ref().map(|x| x(action)): what reaches the sink.
Emit(self, action) ==
    IF self.action_callback.some
    THEN <<[sink |-> self.action_callback.val, action |-> action]>>
    ELSE <<>>

\* Result of a handler: the new fields, the deliveries to the callback,
\* whether a line was written to stderr, and the number of handle_event
\* invocations that ran to produce it.
Handled(self, out, diag) ==
    [self |-> self, out |-> out, diag |-> diag, calls |-> 0]

\* --------------------------------------------------------------- handle_event

\* Faulty variant of OnControl: each axis is clamped to the i16 range before
\* it is stored.
OnControlClamped(self, ctrl) ==
    LET Clamp(x) == IF x > I16Max THEN I16Max
                    ELSE IF x < -I16Max - 1 THEN -I16Max - 1 ELSE x
    IN  Handled([self EXCEPT !.controls = Controls(Clamp(ctrl.throttle),
                                                   Clamp(ctrl.elevation),
                                                   Clamp(ctrl.yaw))],
                <<>>, FALSE)

\* The Control arm: self.controls = ctrl.clone().
OnControl(self, ctrl) ==
    Handled([self EXCEPT !.controls = ctrl], <<>>, FALSE)

\* The Barometer arm.
OnBarometer(self, press) ==
    Handled([self EXCEPT !.altitude = Some(BaroAltitude(press))], <<>>, FALSE)

\* Faulty variant of OnGPSLatitude: the longitude is not carried over.
OnGPSLatitudeDropsLongitude(self, latitude) ==
    Handled([self EXCEPT !.gps_location = Some(<<latitude, Finite(0)>>)],
            <<>>, FALSE)

\* The GPSLatitude arm.
OnGPSLatitude(self, latitude) ==
    Handled([self EXCEPT !.gps_location =
               Some(<<latitude,
                      UnwrapOr(self.gps_location, <<Finite(0), Finite(0)>>)[2]>>)],
            <<>>, FALSE)

\* The GPSLongitude arm.
OnGPSLongitude(self, longitude) ==
    Handled([self EXCEPT !.gps_location =
               Some(<<UnwrapOr(self.gps_location, <<Finite(0), Finite(0)>>)[1],
                      longitude>>)],
            <<>>, FALSE)

\* Faulty variant of OnPing: answers a Ping with a Ping.
OnPingEchoesPing(self, id) ==
    Handled(self, Emit(self, SendMsg(EncodeB2G(MsgPing(id)))), FALSE)

\* The GetMsg arm, for a successfully decoded MessageG2B::Ping(id).
OnPing(self, id) ==
    Handled(self, Emit(self, SendMsg(EncodeB2G(MsgPong(id)))), FALSE)

\* The GetMsg arm, for MessageG2B::Pong(id): nothing.
OnPong(self, id) == Handled(self, <<>>, FALSE)

\* Faulty variant of OnDecodeError: falls back to neutral Controls.
OnDecodeErrorResetsControls(self) ==
    Handled([self EXCEPT !.controls = Controls(0, 0, 0)], <<>>, TRUE)

\* The GetMsg arm when from_bytes fails: eprintln!, nothing else.
OnDecodeError(self) == Handled(self, <<>>, TRUE)

\* The `_ => {}` arm (SensorDataF64(GPSAltitude, _)).
OnOther(self) == Handled(self, <<>>, FALSE)

\* Faulty variant of TelemetryEcho: echoes only the sensor tags that have an
\* arm of their own.
TelemetryEchoHandledOnly(self, ev) ==
    IF ev.type = "SensorDataF64" /\ ev.sensor # "GPSAltitude"
    THEN Emit(self, SendMsg(EncodeB2G(MsgForwardEvent(ev))))
    ELSE <<>>

\* The trailing `if matches!(ev, BlimpEvent::SensorDataF64(..))`.
TelemetryEcho(self, ev) ==
    IF ev.type = "SensorDataF64"
    THEN Emit(self, SendMsg(EncodeB2G(MsgForwardEvent(ev))))
    ELSE <<>>

\* The arm's result, followed by the telemetry echo of the event.
WithEcho(arm, ev) ==
    [Handled(arm.self, arm.out \o TelemetryEcho(arm.self, ev), arm.diag)
        EXCEPT !.calls = arm.calls + 1]

RECURSIVE handle_event(_, _)

\* Faulty variant of OnGetMsg: a decoded Control is put aside for a later
\* call instead of being dispatched inside this one.
OnGetMsgControlDeferred(self, d) ==
    IF d.ok THEN
        CASE d.val.type = "Ping"    -> OnPing(self, d.val.id)
          [] d.val.type = "Pong"    -> OnPong(self, d.val.id)
          [] d.val.type = "Control" -> Handled(self, <<>>, FALSE)
    ELSE OnDecodeError(self)

\* The GetMsg arm, given the result d of postcard::from_bytes::<MessageG2B>.
OnGetMsg(self, d) ==
    IF d.ok THEN
        CASE d.val.type = "Ping"    -> OnPing(self, d.val.id)
          [] d.val.type = "Pong"    -> OnPong(self, d.val.id)
          [] d.val.type = "Control" -> handle_event(self, EvControl(d.val.ctrl))
    ELSE OnDecodeError(self)

handle_event(self, ev) ==
    WithEcho(
        IF ev.type = "Control" THEN OnControl(self, ev.ctrl)
        ELSE IF ev.type = "SensorDataF64" /\ ev.sensor = "Barometer" THEN
            OnBarometer(self, ev.value)
        ELSE IF ev.type = "SensorDataF64" /\ ev.sensor = "GPSLatitude" THEN
            OnGPSLatitude(self, ev.value)
        ELSE IF ev.type = "SensorDataF64" /\ ev.sensor = "GPSLongitude" THEN
            OnGPSLongitude(self, ev.value)
        ELSE IF ev.type = "GetMsg" THEN OnGetMsg(self, from_bytes_G2B[ev.msg])
        ELSE OnOther(self),
        ev)

\* ----------------------------------------------------------- step

\* `for i in 0..4`
NumArms == 4

IsActuator(action) == action.type \in {"SetMotor", "SetServo"}

\* perform_action: the action itself, then its ForwardAction mirror.
perform_action(self, action) ==
    Emit(self, action)
      \o (IF IsActuator(action)
          THEN Emit(self, SendMsg(EncodeB2G(MsgForwardAction(action))))
          ELSE <<>>)

\* Faulty variant of ArmActions: the servos are set before the motor.
ArmActionsServosFirst(self, i, speed) ==
    perform_action(self, SetServo(2 * i, AsI16(self.controls.elevation)))
      \o perform_action(self, SetServo(2 * i + 1, AsI16(self.controls.yaw)))
      \o perform_action(self, SetMotor(i, speed))

\* The three actions of arm i, given the motor speed.
ArmActions(self, i, speed) ==
    perform_action(self, SetMotor(i, speed))
      \o perform_action(self, SetServo(2 * i, AsI16(self.controls.elevation)))
      \o perform_action(self, SetServo(2 * i + 1, AsI16(self.controls.yaw)))

\* throttle + (if i % 2 == 0 { 1 } else { -1 }) * yaw + elevation, evaluated
\* left to right in i32: [value, overflow] where overflow says that one of the
\* three operations left the i32 range.
MotorSpeed(c, i) ==
    LET sign == IF i % 2 = 0 THEN 1 ELSE -1
        prod == WrappingMul(sign, c.yaw)
        sum  == WrappingAdd(c.throttle, prod)
    IN  [value    |-> WrappingAdd(sum, c.elevation),
         overflow |-> \/ MulOverflows(sign, c.yaw)
                      \/ AddOverflows(c.throttle, prod)
                      \/ AddOverflows(sum, c.elevation)]

\* Iterations i, i+1, ... of the Manual loop.  With overflow checks the
\* iteration whose speed overflows panics before it emits anything; what the
\* earlier iterations passed to the callback has already been delivered.
RECURSIVE ManualLoop(_, _, _)
ManualLoop(self, i, checks) ==
    IF i >= NumArms THEN [out |-> <<>>, panicked |-> FALSE]
    ELSE LET speed == MotorSpeed(self.controls, i)
         IN  IF checks /\ speed.overflow THEN [out |-> <<>>, panicked |-> TRUE]
             ELSE LET rest == ManualLoop(self, i + 1, checks)
                  IN  [out      |-> ArmActions(self, i, speed.value) \o rest.out,
                       panicked |-> rest.panicked]

\* Faulty variant of step: the Manual loop runs in every flight mode.
StepIgnoresMode(self, checks) ==
    IF self.action_callback.some
    THEN ManualLoop(self, 0, checks)
    ELSE [out |-> <<>>, panicked |-> FALSE]

\* Faulty variant of step: the arms are computed whether or not a callback is
\* registered.
StepWithoutCallbackCheck(self, checks) ==
    IF self.curr_flight_mode = "Manual"
    THEN ManualLoop(self, 0, checks)
    ELSE [out |-> <<>>, panicked |-> FALSE]

\* step(): the closure runs only when a callback is registered.
step(self, checks) ==
    IF self.curr_flight_mode = "Manual" /\ self.action_callback.some
    THEN ManualLoop(self, 0, checks)
    ELSE [out |-> <<>>, panicked |-> FALSE]

\* ------------------------------------------------------------ the machine

Init ==
    /\ action_callback = New.action_callback
    /\ curr_flight_mode = New.curr_flight_mode
    /\ controls = New.controls
    /\ altitude = New.altitude
    /\ gps_location = New.gps_location
    /\ overflow_checks \in BOOLEAN
    /\ panicked = FALSE
    /\ last_call = Call("new", NoEvent, 0, FALSE)
    /\ emitted = <<>>
    /\ seen = NothingSeen
    /\ latest = NothingYet
    /\ nesting = 0

\* The controller fields and the history after handle_event(ev) returned r.
Returned(r, ev) ==
    /\ action_callback' = r.self.action_callback
    /\ curr_flight_mode' = r.self.curr_flight_mode
    /\ controls' = r.self.controls
    /\ altitude' = r.self.altitude
    /\ gps_location' = r.self.gps_location
    /\ emitted' = r.out
    /\ last_call' = Call("handle_event", ev, 0, r.diag)
    /\ seen' = Seen(seen, ev)
    /\ latest' = Latest(latest, ev)
    /\ nesting' = r.calls - 1

\* self.handle_event(&ev).await
HandleEvent ==
    /\ ~panicked
    /\ \E ev \in Events : Returned(handle_event(Self, ev), ev)
    /\ UNCHANGED <<overflow_checks, panicked>>

\* Faulty variant of Step: the Controls are consumed, reset to neutral once
\* they have been applied.
StepConsumesControls ==
    /\ ~panicked
    /\ LET r == step(Self, overflow_checks)
       IN  /\ emitted' = r.out
           /\ panicked' = r.panicked
    /\ last_call' = Call("step", NoEvent, 0, FALSE)
    /\ nesting' = 0
    /\ controls' = Controls(0, 0, 0)
    /\ UNCHANGED <<action_callback, curr_flight_mode, altitude,
                   gps_location, overflow_checks, seen, latest>>

\* self.step().await
Step ==
    /\ ~panicked
    /\ LET r == step(Self, overflow_checks)
       IN  /\ emitted' = r.out
           /\ panicked' = r.panicked
    /\ last_call' = Call("step", NoEvent, 0, FALSE)
    /\ nesting' = 0
    /\ UNCHANGED <<action_callback, curr_flight_mode, controls, altitude,
                   gps_location, overflow_checks, seen, latest>>

\* Faulty variant of SetActionCallback: a callback already registered is kept
\* and the new one is dropped.
SetActionCallbackKeepsFirst ==
    /\ ~panicked
    /\ \E sink \in Sinks :
         /\ action_callback' = IF action_callback.some THEN action_callback
                                ELSE Some(sink)
         /\ last_call' = Registration(sink, action_callback)
    /\ emitted' = <<>>
    /\ nesting' = 0
    /\ UNCHANGED <<curr_flight_mode, controls, altitude, gps_location,
                   overflow_checks, panicked, seen, latest>>

\* self.set_action_callback(callback)
SetActionCallback ==
    /\ ~panicked
    /\ \E sink \in Sinks :
         /\ action_callback' = Some(sink)
         /\ last_call' = Registration(sink, action_callback)
    /\ emitted' = <<>>
    /\ nesting' = 0
    /\ UNCHANGED <<curr_flight_mode, controls, altitude, gps_location,
                   overflow_checks, panicked, seen, latest>>

Next == HandleEvent \/ Step \/ SetActionCallback

Spec == Init /\ [][Next]_vars

\* The flight mode has no setter in this core and is set out of band; this
\* specification starts the controller in either mode.
InitAnyMode ==
    /\ action_callback = New.action_callback
    /\ curr_flight_mode \in {"Manual", "StabilizeAttiAlti"}
    /\ controls = New.controls
    /\ altitude = New.altitude
    /\ gps_location = New.gps_location
    /\ overflow_checks \in BOOLEAN
    /\ panicked = FALSE
    /\ last_call = Call("new", NoEvent, 0, FALSE)
    /\ emitted = <<>>
    /\ seen = NothingSeen
    /\ latest = NothingYet
    /\ nesting = 0

SpecAnyMode == InitAnyMode /\ [][Next]_vars

\* ------------------------------------------------------ claims: vocabulary

PingIds == {m.id : m \in {x \in G2BSamples : x.type = "Ping"}}

\* a is a SendMsg whose payload decodes, with nothing left over, to m.
SendsB2G(a, m) == a.type = "SendMsg" /\ DecodeB2G(a.msg) = Ok(m, <<>>)

\* a is a SendMsg whose payload decodes to a message of the given variant.
SendsVariant(a, variant) ==
    /\ a.type = "SendMsg"
    /\ DecodeB2G(a.msg).ok
    /\ DecodeB2G(a.msg).val.type = variant

\* Controls, altitude, GPS location and flight mode are left as they were.
FlightStateUnchanged ==
    UNCHANGED <<controls, altitude, gps_location, curr_flight_mode>>

\* ------------------------------------------------------------------ C1

\* C1: with a callback registered, handling a GetMsg that decodes to Ping(id)
\* delivers exactly one action, a SendMsg whose payload decodes to Pong(id)
\* with the same id, and leaves Controls, altitude, GPS location and flight
\* mode unchanged.
C1_PingAnsweredByPong ==
    [][\A id \in PingIds :
         (/\ last_call'.op = "handle_event"
          /\ Carries(last_call'.ev, MsgPing(id))
          /\ action_callback.some)
         => /\ Len(emitted') = 1
            /\ SendsB2G(emitted'[1].action, MsgPong(id))
            /\ emitted'[1].sink = action_callback.val
            /\ FlightStateUnchanged]_vars

C1_Witness ==
    /\ last_call.op = "handle_event"
    /\ Carries(last_call.ev, MsgPing(7))
    /\ action_callback.some
    /\ Len(emitted) = 1
    /\ SendsB2G(emitted[1].action, MsgPong(7))

\* ------------------------------------------------------------------ C2

\* What a direct Control(c) event does to the state the step started in.
DirectControl(c) == handle_event(Self, EvControl(c))

\* C2: a GetMsg carrying Control(c) and a direct Control(c) event have the
\* same effect: both end with stored Controls = c, with altitude, GPS
\* location, mode and callback unchanged, and with no emission; the state
\* after the GetMsg is the one the direct event yields from the same start.
C2_RemoteControlEqualsDirect ==
    [][\A c \in ControlSamples :
         (/\ last_call'.op = "handle_event"
          /\ \/ last_call'.ev = EvControl(c)
             \/ Carries(last_call'.ev, MsgControl(c)))
         => /\ controls' = c
            /\ UNCHANGED <<altitude, gps_location, curr_flight_mode, action_callback>>
            /\ emitted' = <<>>
            /\ controls' = DirectControl(c).self.controls
            /\ altitude' = DirectControl(c).self.altitude
            /\ gps_location' = DirectControl(c).self.gps_location
            /\ curr_flight_mode' = DirectControl(c).self.curr_flight_mode
            /\ action_callback' = DirectControl(c).self.action_callback
            /\ emitted' = DirectControl(c).out]_vars

C2_Witness ==
    /\ last_call.op = "handle_event"
    /\ Carries(last_call.ev, MsgControl(Controls(0, 40000, -40000)))
    /\ controls = Controls(0, 40000, -40000)
    /\ action_callback.some
    /\ altitude.some
    /\ emitted = <<>>

\* ------------------------------------------------------------------ C3

\* C3: with a callback registered, handling SensorDataF64(t, v), for each of
\* the four tags, delivers exactly one action, a SendMsg carrying
\* ForwardEvent of that same event; handling a Control or GetMsg event
\* delivers no ForwardEvent.
C3_SensorEventForwardedOnce ==
    (last_call.op = "handle_event" /\ action_callback.some)
    => /\ last_call.ev.type = "SensorDataF64"
          => /\ Len(emitted) = 1
             /\ SendsB2G(emitted[1].action, MsgForwardEvent(last_call.ev))
       /\ last_call.ev.type \in {"Control", "GetMsg"}
          => \A k \in 1..Len(emitted) :
                ~SendsVariant(emitted[k].action, "ForwardEvent")

C3_Witness ==
    /\ last_call.op = "handle_event"
    /\ last_call.ev = EvSensorDataF64("GPSAltitude", Finite(10000))
    /\ action_callback.some
    /\ Len(emitted) = 1
    /\ SendsB2G(emitted[1].action, MsgForwardEvent(last_call.ev))

\* ------------------------------------------------------------------ C4

\* C4: handling a GetMsg whose buffer does not decode as a MessageG2B leaves
\* Controls, altitude, GPS location and flight mode as they were, delivers
\* nothing, and returns normally (the instance goes on accepting calls).
C4_UndecodableMessageDropped ==
    [][(/\ last_call'.op = "handle_event"
        /\ last_call'.ev.type = "GetMsg"
        /\ ~DecodeG2B(last_call'.ev.msg).ok)
       => /\ FlightStateUnchanged
          /\ action_callback' = action_callback
          /\ emitted' = <<>>
          /\ ~panicked']_vars

C4_Witness ==
    /\ last_call.op = "handle_event"
    /\ last_call.ev = EvGetMsg(<<2, 100>>)
    /\ last_call.diag
    /\ action_callback.some
    /\ controls = Controls(50, 10, 5)
    /\ emitted = <<>>

\* ------------------------------------------------- claims about step()

\* The current state is the one a step() call in Manual mode with a
\* registered callback produced.
AfterManualStep ==
    /\ last_call.op = "step"
    /\ curr_flight_mode = "Manual"
    /\ action_callback.some

\* The action delivered at position k of the last call.
Act(k) == emitted[k].action

Positions == 1..Len(emitted)

PositionsOf(type) == {k \in Positions : Act(k).type = type}

ActuatorPositions == {k \in Positions : IsActuator(Act(k))}

\* ------------------------------------------------------------------ C5

\* C5: in Manual mode with a callback registered, one step() call delivers
\* exactly 24 actions, 4 SetMotor, 8 SetServo and 12 SendMsg; each SetMotor or
\* SetServo is immediately followed by a SendMsg carrying ForwardAction of
\* that action, and no other SendMsg is delivered (none forwards a SendMsg).
C5_ManualStepEmits24 ==
    AfterManualStep
    => /\ Len(emitted) = 24
       /\ Cardinality(PositionsOf("SetMotor")) = 4
       /\ Cardinality(PositionsOf("SetServo")) = 8
       /\ Cardinality(PositionsOf("SendMsg")) = 12
       /\ \A k \in ActuatorPositions :
            /\ k + 1 \in Positions
            /\ SendsB2G(Act(k + 1), MsgForwardAction(Act(k)))
       /\ \A k \in PositionsOf("SendMsg") :
            /\ k - 1 \in ActuatorPositions
            /\ ~(/\ SendsVariant(Act(k), "ForwardAction")
                 /\ DecodeB2G(Act(k).msg).val.action.type = "SendMsg")

\* ------------------------------------------------------------------ C6

\* Place of an actuator action in the order motor i, servo 2i, servo 2i+1,
\* for i = 0, 1, 2, 3.
Rank(a) ==
    IF a.type = "SetMotor" THEN 3 * a.motor
    ELSE 3 * (a.servo \div 2) + 1 + (a.servo % 2)

\* C6: the actuator actions of one Manual step() call are delivered in the
\* order SetMotor{i}, SetServo{2i}, SetServo{2i+1} for i ascending from 0:
\* the j-th actuator action delivered has rank j-1, so every action of arm i
\* precedes every action of arm i+1; a call that returns delivers all twelve.
C6_ActuatorOrder ==
    AfterManualStep
    => /\ \A p, q \in ActuatorPositions : p < q => Rank(Act(p)) < Rank(Act(q))
       /\ {Rank(Act(p)) : p \in ActuatorPositions}
            = 0..(Cardinality(ActuatorPositions) - 1)
       /\ ~panicked => Cardinality(ActuatorPositions) = 3 * NumArms

C6_Witness ==
    /\ AfterManualStep
    /\ ~panicked
    /\ controls = Controls(50, 10, 5)
    /\ Cardinality(ActuatorPositions) = 12
    /\ Act(1) = SetMotor(0, 65)
    /\ Act(3) = SetServo(0, 10)
    /\ Act(5) = SetServo(1, 5)
    /\ Act(7) = SetMotor(1, 55)

\* ------------------------------------------------------------------ C7

\* Exact integers as [hi, lo] with value = hi * 65536 + lo, 0 <= lo < 65536,
\* so that sums of i32 values are formed without a width.
Split(x) == [hi |-> x \div 65536, lo |-> x % 65536]

Neg(s) ==
    IF s.lo = 0 THEN [hi |-> -(s.hi), lo |-> 0]
    ELSE [hi |-> -(s.hi) - 1, lo |-> 65536 - s.lo]

Plus(a, b) ==
    [hi |-> a.hi + b.hi + ((a.lo + b.lo) \div 65536), lo |-> (a.lo + b.lo) % 65536]

\* throttle + yaw + elevation for even i, throttle - yaw + elevation for odd
\* i, as an exact integer.
IdealSpeed(c, i) ==
    Plus(Plus(Split(c.throttle),
              IF i % 2 = 0 THEN Split(c.yaw) ELSE Neg(Split(c.yaw))),
         Split(c.elevation))

\* C7: in Manual mode, for every stored Controls and each motor i in 0..3,
\* step() delivers SetMotor{motor: i, speed} with speed = throttle + yaw +
\* elevation (i even) or throttle - yaw + elevation (i odd).
C7_MotorSpeedFormula ==
    AfterManualStep
    => \A i \in 0..(NumArms - 1) :
         \E k \in PositionsOf("SetMotor") :
            /\ Act(k).motor = i
            /\ Split(Act(k).speed) = IdealSpeed(controls, i)

\* ------------------------------------------------------------------ C8

\* C8: in Manual mode, for every stored Controls and each i in 0..3, step()
\* delivers SetServo{servo: 2i} with location equal to the stored elevation
\* and SetServo{servo: 2i+1} with location equal to the stored yaw.
C8_ServoLocations ==
    AfterManualStep
    => \A i \in 0..(NumArms - 1) :
         /\ \E k \in PositionsOf("SetServo") :
              Act(k).servo = 2 * i /\ Act(k).location = controls.elevation
         /\ \E k \in PositionsOf("SetServo") :
              Act(k).servo = 2 * i + 1 /\ Act(k).location = controls.yaw

\* ------------------------------------------------------------------ C9

Zero == Finite(0)

\* The GPS location the events handled so far call for.
ExpectedGps ==
    IF seen.latitude.some \/ seen.longitude.some
    THEN Some(<<UnwrapOr(seen.latitude, Zero), UnwrapOr(seen.longitude, Zero)>>)
    ELSE None

IsSensorCall(call, sensor) ==
    /\ call.op = "handle_event"
    /\ call.ev.type = "SensorDataF64"
    /\ call.ev.sensor = sensor

\* C9: the GPS location is absent exactly while no GPSLatitude or
\* GPSLongitude event has been handled; afterwards it is the pair (latest
\* latitude or 0.0, latest longitude or 0.0).  A latitude event leaves the
\* stored longitude as it was, a longitude event the stored latitude, and a
\* present location never becomes absent.
C9_GpsLocation ==
    /\ gps_location = ExpectedGps
    /\ [][/\ gps_location' = ExpectedGps'
          /\ gps_location.some => gps_location'.some
          /\ (IsSensorCall(last_call', "GPSLatitude") /\ gps_location.some)
               => gps_location'.val[2] = gps_location.val[2]
          /\ (IsSensorCall(last_call', "GPSLongitude") /\ gps_location.some)
               => gps_location'.val[1] = gps_location.val[1]]_vars

C9_Witness ==
    /\ IsSensorCall(last_call, "GPSLatitude")
    /\ seen.latitude = Some(Finite(10000))
    /\ seen.longitude = Some(Finite(20000))
    /\ gps_location = Some(<<Finite(10000), Finite(20000)>>)

\* ------------------------------------------------------------------ C10

\* C10: the altitude estimate is absent until a Barometer event has been
\* handled, and every call other than handle_event(SensorDataF64(Barometer,
\* _)) leaves it unchanged.
C10_AltitudeOnlyFromBarometer ==
    /\ altitude = None
    /\ [][/\ ~seen.barometer' => altitude' = None
          /\ ~IsSensorCall(last_call', "Barometer") => altitude' = altitude]_vars

C10_Witness ==
    /\ seen.barometer
    /\ altitude = Some(Finite(999))
    /\ IsSensorCall(last_call, "GPSAltitude")
    /\ seen.latitude.some
    /\ action_callback.some
    /\ controls # Controls(0, 0, 0)

\* ------------------------------------------------------------------ C11

\* C11: a Barometer event whose pressure is not positive is either rejected
\* (the altitude estimate stays as it was) or marks the estimate as invalid
\* (absent); the value of the altitude formula for such a pressure is never
\* stored as a present estimate.
C11_NonPositivePressureRejected ==
    [][(IsSensorCall(last_call', "Barometer")
          /\ last_call'.ev.value.cls = "finite"
          /\ last_call'.ev.value.milli <= 0)
        => (altitude' = altitude \/ altitude' = None)]_vars

\* ------------------------------------------------------------------ C12

\* The fields of the controller other than the callback.
FlightState(self) ==
    <<self.curr_flight_mode, self.controls, self.altitude, self.gps_location>>

\* C12: while no callback is registered, every handle_event and every step
\* returns without a panic and delivers nothing, leaves the controller's
\* fields as the same call leaves them when a callback is registered, and the
\* registration that ends the period delivers nothing either.
C12_NoCallbackNoEmission ==
    [][/\ (~action_callback.some /\ last_call'.op = "handle_event")
            => /\ emitted' = <<>> /\ ~panicked' /\ ~action_callback'.some
               /\ \A sink \in Sinks :
                    FlightState(handle_event([Self EXCEPT !.action_callback = Some(sink)],
                                             last_call'.ev).self)
                      = <<curr_flight_mode', controls', altitude', gps_location'>>
       /\ (~action_callback.some /\ last_call'.op = "step")
            => /\ emitted' = <<>> /\ ~panicked' /\ ~action_callback'.some
               /\ FlightStateUnchanged
       /\ (~action_callback.some /\ last_call'.op = "set_action_callback")
            => emitted' = <<>>]_vars

C12_Witness ==
    /\ ~action_callback.some
    /\ last_call.op = "step"
    /\ overflow_checks
    /\ controls = Controls(I32Max, -1, 1)
    /\ altitude.some
    /\ gps_location.some
    /\ emitted = <<>>
    /\ ~panicked

\* ------------------------------------------------------------------ C13

\* The number of actions a call produces in Manual mode: six for each arm in
\* step(), one echo for a sensor event, one reply for a Ping, none otherwise.
ActionsProduced(call) ==
    IF call.op = "step" THEN 6 * NumArms
    ELSE IF call.op # "handle_event" THEN 0
    ELSE IF call.ev.type = "SensorDataF64" THEN 1
    ELSE IF \E id \in PingIds : Carries(call.ev, MsgPing(id)) THEN 1
    ELSE 0

\* C13: set_action_callback(B) makes B the registered callback, replacing the
\* previous one, and changes nothing else and delivers nothing; every later
\* call delivers each of its actions once, to the callback registered last
\* and to no other.
C13_SingleSinkLastRegistered ==
    [][/\ last_call'.op = "set_action_callback"
            => /\ action_callback' = Some(last_call'.sink)
               /\ emitted' = <<>>
               /\ panicked' = panicked
               /\ FlightStateUnchanged
       /\ last_call'.op \in {"handle_event", "step"}
            => /\ action_callback' = action_callback
               /\ emitted' # <<>> => action_callback.some
               /\ \A k \in 1..Len(emitted') :
                    emitted'[k].sink = action_callback.val
               /\ (action_callback.some /\ ~panicked')
                    => Len(emitted') = ActionsProduced(last_call')]_vars

C13_Witness ==
    /\ last_call.op = "set_action_callback"
    /\ last_call.replaced = Some(1)
    /\ last_call.sink = 2
    /\ action_callback = Some(2)
    /\ emitted = <<>>
    /\ controls # Controls(0, 0, 0)
    /\ altitude.some

\* ------------------------------------------------------------------ C14

\* C14: no sequence of handle_event, step and set_action_callback calls,
\* whatever the payloads, makes the controller panic.
C14_NeverPanics == ~panicked

\* ------------------------------------------------------------------ C15

\* (ln(101325.0) - ln(p)) * 0.0292718 * 288.15 in thousandths, rounded, for
\* the positive pressures of the samples.
IdealAltitudeMilli(p) ==
    CASE p = Finite(90000000)  -> 1000
      [] p = Finite(101325000) -> 0
      [] p = Finite(110000000) -> -693

PositivePressure(opt) ==
    opt.some /\ opt.val.cls = "finite" /\ opt.val.milli > 0

\* The altitude estimate is the formula's value for the latest pressure, to
\* within two thousandths, and exactly 0 for 101325.0.
AltitudeOfLatestPressure ==
    PositivePressure(latest.pressure)
      => /\ altitude.some
         /\ altitude.val.cls = "finite"
         /\ altitude.val.milli - IdealAltitudeMilli(latest.pressure.val) \in -2..2
         /\ latest.pressure.val = Finite(101325000) => altitude.val.milli = 0

IsControlCarrier(call) ==
    /\ call.op = "handle_event"
    /\ \/ call.ev.type = "Control"
       \/ call.ev.type = "GetMsg" /\ CarriedControls[call.ev.msg].some

StoredControlsAreLatest ==
    controls = UnwrapOr(latest.control, Controls(0, 0, 0))

\* C16: the stored Controls are, unaltered, the payload of the latest Control
\* carrier handled ({0,0,0} before the first one), and every call that is not
\* a Control carrier (sensor events, Ping, Pong, undecodable messages, step,
\* set_action_callback) leaves them unchanged.
C16_ControlsAreLatestCarrier ==
    /\ StoredControlsAreLatest
    /\ [][/\ StoredControlsAreLatest'
          /\ ~IsControlCarrier(last_call') => controls' = controls]_vars

C16_Witness ==
    /\ last_call.op = "handle_event"
    /\ last_call.ev.type = "GetMsg"
    /\ last_call.diag
    /\ latest.control = Some(Controls(I32Max, 0, I32Min))
    /\ controls = Controls(I32Max, 0, I32Min)
    /\ action_callback.some

\* ------------------------------------------------------------------ C17

\* The call is a GetMsg whose datagram carries a Control message.
IsRemoteControl(call) ==
    /\ call.op = "handle_event"
    /\ call.ev.type = "GetMsg"
    /\ CarriedControls[call.ev.msg].some

\* C17: a handle_event call on a GetMsg carrying Control(c) runs the nested
\* Control dispatch inside itself, exactly one level deep (no other call
\* nests), and has stored c when it returns, so that a step() that follows
\* it directly computes its actions from c.
C17_NestedDispatchCompletes ==
    [][/\ last_call'.op = "handle_event"
            => nesting' = IF IsRemoteControl(last_call') THEN 1 ELSE 0
       /\ IsRemoteControl(last_call')
            => controls' = CarriedControls[last_call'.ev.msg].val
       /\ (IsRemoteControl(last_call) /\ last_call'.op = "step")
            => LET c == CarriedControls[last_call.ev.msg].val
                   r == step([Self EXCEPT !.controls = c], overflow_checks)
               IN  /\ emitted' = r.out
                   /\ panicked' = r.panicked
                   /\ controls' = c]_vars

C17_Witness ==
    /\ IsRemoteControl(last_call)
    /\ nesting = 1
    /\ controls = Controls(0, 40000, -40000)
    /\ CarriedControls[last_call.ev.msg] = Some(Controls(0, 40000, -40000))
    /\ action_callback.some
    /\ altitude.some

\* ------------------------------------------------------------------ C18

\* C18: step() changes none of Controls, altitude, GPS location, flight mode
\* and registered callback, in either mode and with or without a callback,
\* and a step() that directly follows another step() delivers the same
\* sequence of actions.
C18_StepReadOnly ==
    [][last_call'.op = "step"
        => /\ UNCHANGED <<controls, altitude, gps_location, curr_flight_mode,
                         action_callback>>
           /\ last_call.op = "step" => emitted' = emitted]_vars

C18_Witness ==
    /\ last_call.op = "step"
    /\ Len(emitted) = 6 * NumArms
    /\ controls = Controls(50, 10, 5)
    /\ altitude.some
    /\ gps_location.some

\* ------------------------------------------------------------------ C19

\* C19: the flight mode is Manual after new() and no call changes it, so it
\* is Manual in every reachable state, and every step() with a callback
\* registered takes the Manual branch: it delivers the actions of all arms,
\* unless it panics on the way.
C19_ModeStaysManual ==
    /\ curr_flight_mode = "Manual"
    /\ [][/\ curr_flight_mode' = "Manual"
          /\ (last_call'.op = "step" /\ action_callback.some)
               => (panicked' \/ Len(emitted') = 6 * NumArms)]_vars

C19_Witness ==
    /\ curr_flight_mode = "Manual"
    /\ last_call.op = "step"
    /\ action_callback = Some(2)
    /\ Len(emitted) = 6 * NumArms
    /\ latest.control.some
    /\ seen.barometer
    /\ seen.latitude.some

\* ------------------------------------------------------------------ C20

\* C20: in the StabilizeAttiAlti mode step() delivers no action and does not
\* panic, whatever the stored Controls, altitude and GPS location and whether
\* or not a callback is registered.
C20_StabilizeStepEmitsNothing ==
    (curr_flight_mode = "StabilizeAttiAlti" /\ last_call.op = "step")
      => (emitted = <<>> /\ ~panicked)

C20_Witness ==
    /\ curr_flight_mode = "StabilizeAttiAlti"
    /\ last_call.op = "step"
    /\ action_callback.some
    /\ overflow_checks
    /\ controls = Controls(I32Max, -1, 1)
    /\ altitude = Some(Finite(999))
    /\ gps_location.some
    /\ emitted = <<>>

=============================================================================
